---- MODULE Spec2Model ----
(***************************************************************************)
(* Model of CalibrationClasses.py: the Calibration class (sampling the     *)
(* posterior of the mortality probability by likelihood weighting) and the *)
(* CalibratedModel class (weighted resampling of the calibration table and *)
(* projection).                                                            *)
(*                                                                         *)
(* Floating point values that the claims are about (likelihood weights,    *)
(* their normalisation, the effective sample size) are modelled as exact   *)
(* fractions in lowest terms, extended with the two IEEE values the code   *)
(* can produce from a division by zero: NaN (0/0) and Inf (x/0).           *)
(* Mortality probabilities and survival times are points of small integer  *)
(* grids.  Random draws (np.random.uniform, np.random.choice) and the      *)
(* outcomes of the external simulator are nondeterministic choices over    *)
(* the values those calls can return.                                      *)
(***************************************************************************)
EXTENDS Integers, Sequences, FiniteSets

\* ------------------------------------------------------------------ bounds
MaxN == 2           \* largest n_samples / PRIOR_N explored
MaxRows == 2        \* largest calibration table handed to the loader
MaxCohorts == 2     \* largest num_of_simulated_cohorts of one simulate call
MaxResampled == 3   \* cap on the accumulated resample list

\* ------------------------------------------------------- float arithmetic
RECURSIVE GCD(_, _)
GCD(a, b) == IF b = 0 THEN a ELSE GCD(b, a % b)

Abs(x) == IF x < 0 THEN -x ELSE x

NaN == [n |-> 0, d |-> 0]
Inf == [n |-> 1, d |-> 0]

\* the fraction n/d, d > 0, in lowest terms
Frac(n, d) ==
    LET g == GCD(Abs(n), d) IN [n |-> n \div g, d |-> d \div g]

IsNaN(a) == a.d = 0 /\ a.n = 0
IsFinite(a) == a.d > 0

FAdd(a, b) ==
    IF IsNaN(a) \/ IsNaN(b) THEN NaN
    ELSE IF a.d = 0 \/ b.d = 0 THEN Inf
    ELSE Frac(a.n * b.d + b.n * a.d, a.d * b.d)

FMul(a, b) ==
    IF IsNaN(a) \/ IsNaN(b) THEN NaN
    ELSE IF a.d = 0 \/ b.d = 0
         THEN (IF a.n = 0 \/ b.n = 0 THEN NaN ELSE Inf)
    ELSE Frac(a.n * b.n, a.d * b.d)

\* a / b for non-negative a, b as numpy divides: x/0 is Inf, 0/0 is NaN
FDiv(a, b) ==
    IF IsNaN(a) \/ IsNaN(b) THEN NaN
    ELSE IF a.d = 0 THEN (IF b.d = 0 THEN NaN ELSE Inf)
    ELSE IF b.d = 0 THEN Frac(0, 1)
    ELSE IF b.n = 0 THEN (IF a.n = 0 THEN NaN ELSE Inf)
    ELSE Frac(a.n * b.d, a.d * b.n)

\* comparisons; every comparison with NaN is false, as in IEEE arithmetic
FLeq(a, b) ==
    /\ ~IsNaN(a) /\ ~IsNaN(b)
    /\ IF a.d = 0 THEN b.d = 0
       ELSE IF b.d = 0 THEN TRUE
       ELSE a.n * b.d <= b.n * a.d

FEq(a, b) == ~IsNaN(a) /\ ~IsNaN(b) /\ a = b

Zero == Frac(0, 1)
One == Frac(1, 1)
FInt(k) == Frac(k, 1)

RECURSIVE FSum(_)
FSum(s) == IF s = <<>> THEN Zero ELSE FAdd(FSum(SubSeq(s, 1, Len(s) - 1)), s[Len(s)])

RECURSIVE ISum(_)
ISum(s) == IF s = <<>> THEN 0 ELSE ISum(SubSeq(s, 1, Len(s) - 1)) + s[Len(s)]

\* --------------------------------------------------------------- state
VARIABLES
    Sets,                   \* the CalibrationSettings module read by Calibration
    cohortIDs,              \* Calibration.cohortIDs
    mortalitySamples,       \* Calibration.mortalitySamples
    normalizedWeights,      \* Calibration.normalizedWeights
    normalizedIsArray,      \* FALSE while normalizedWeights is still the list [] of __init__
    csvFile,                \* CalibrationResults.csv: <<>> while absent, else header + rows
    n_samples,              \* argument of the last sample_posterior call (<<>> before any)
    multi_cohort,           \* simulator built by the last sample_posterior call (<<>> if none)
    rawWeights,             \* the local list weights of the last sample_posterior call
    wroteCsv,               \* the last sample_posterior call reached IO.write_csv
    calOutcome,             \* how the last sample_posterior call ended
    essResult,              \* what the last get_effective_sample_size call returned
    modelCohortIDs,         \* CalibratedModel.cohortIDs
    weights,                \* CalibratedModel.weights
    mortalityProbs,         \* CalibratedModel.mortalityProbs
    resampledMortalityProb, \* CalibratedModel.resampledMortalityProb
    multiCohorts,           \* CalibratedModel.multiCohorts (<<>> is None)
    constructed,            \* a CalibratedModel instance exists
    lastSimulate,           \* arguments, draws and outcome of the last simulate call
    sumStatData,            \* SummaryStat built by the last credible-interval query
    drawnTotal,             \* sum of num_of_simulated_cohorts over the calls that resampled
    loaded                  \* the file and ratio the CalibratedModel was built from

calVars == <<cohortIDs, mortalitySamples, normalizedWeights, normalizedIsArray, csvFile,
             n_samples, multi_cohort, rawWeights, wroteCsv, calOutcome, essResult>>
projVars == <<modelCohortIDs, weights, mortalityProbs, resampledMortalityProb,
              multiCohorts, constructed, lastSimulate, sumStatData, drawnTotal, loaded>>
vars == <<Sets, calVars, projVars>>

\* ------------------------------------------------------------ Calibration
OBS_MEAN == 10

\* survival times the simulator can report for a cohort: on the observed
\* mean, one unit off, and far in the tail
MeanValues == {OBS_MEAN, OBS_MEAN + 1, OBS_MEAN + 5}

\* the settings the calibration can be run with, valid and invalid ones
SettingsSpace ==
    [PRIOR_L : 0..1, PRIOR_U : 0..1, PRIOR_N : 1..MaxN,
     SIM_POP_SIZE : 0..1, OBS_STDEV : 0..1]

\* stat.norm.pdf(x, loc, scale): NaN for a non-positive scale; otherwise a
\* non-negative density that falls with |x - loc| / scale and underflows to
\* exactly 0.0 far in the tail (in units of the density two deviations off)
NormPdf(x, loc, scale) ==
    IF scale <= 0 THEN NaN
    ELSE LET z == Abs(x - loc) \div scale
         IN  IF z = 0 THEN FInt(4)
             ELSE IF z = 1 THEN FInt(2)
             ELSE IF z = 2 THEN FInt(1)
             ELSE Zero

\* range(n)
PyRange(n) == [i \in 1..(IF n > 0 THEN n ELSE 0) |-> i - 1]

\* the results np.random.uniform(low, high, size) can return
Uniform(low, high, size) ==
    [1..size -> (IF low <= high THEN low..high ELSE high..low)]

\* [x] * n
Repeat(x, n) == [i \in 1..(IF n > 0 THEN n ELSE 0) |-> x]

\* np.divide(weights, sum_weights)
Normalize(ws) == [i \in DOMAIN ws |-> FDiv(ws[i], FSum(ws))]

CsvHeader == <<"Cohort ID", "Likelihood Weights", "Mortality Prob">>

\* lines 76-80: the rows appended after the header, one per drawn sample
CsvRows(ids, nw, samples) ==
    [i \in 1..Len(samples) |-> <<ids[i], nw[i], samples[i]>>]

\* SurvivalCls.MultiCohort(ids, mortality_probs, pop_sizes)
MultiCohort(ids, probs, sizes) ==
    [ids |-> ids, mortality_probs |-> probs, pop_sizes |-> sizes]

\* whether the lists a simulator is built from agree in length
Aligned(mc) ==
    /\ Len(mc.ids) = Len(mc.mortality_probs)
    /\ Len(mc.ids) = Len(mc.pop_sizes)

\* Calibration.__init__
CalInit ==
    /\ cohortIDs = <<>>
    /\ mortalitySamples = <<>>
    /\ normalizedWeights = <<>>
    /\ normalizedIsArray = FALSE
    /\ csvFile = <<>>
    /\ n_samples = <<>>
    /\ multi_cohort = <<>>
    /\ rawWeights = <<>>
    /\ wroteCsv = FALSE
    /\ calOutcome = "none"
    /\ essResult = <<>>

\* Calibration.sample_posterior(n): draws are the values np.random.uniform
\* returns, means the simulated mean survival times, simOk whether the
\* simulator ran through (it may only fail when its lists differ in length)
sample_posterior(n, draws, means, simOk) ==
    LET ids == PyRange(n)
        mc == MultiCohort(ids, draws, Repeat(Sets.SIM_POP_SIZE, Sets.PRIOR_N))
        ws == [i \in 1..Len(ids) |-> NormPdf(OBS_MEAN, means[i], Sets.OBS_STDEV)]
        nw == Normalize(ws)
    IN  /\ (Aligned(mc) => simOk)
        /\ n_samples' = <<n>>
        /\ cohortIDs' = ids
        /\ mortalitySamples' = draws
        /\ multi_cohort' = <<mc>>
        /\ essResult' = essResult
        /\ IF ~simOk
           THEN /\ calOutcome' = "SimulatorError"
                /\ rawWeights' = <<>>
                /\ wroteCsv' = FALSE
                /\ UNCHANGED <<normalizedWeights, normalizedIsArray, csvFile>>
           ELSE /\ rawWeights' = ws
                /\ normalizedWeights' = nw
                /\ normalizedIsArray' = TRUE
                /\ IF Len(draws) > Len(ids)
                   THEN \* cohortIDs[i] / normalizedWeights[i] out of range
                        /\ calOutcome' = "IndexError"
                        /\ wroteCsv' = FALSE
                        /\ csvFile' = csvFile
                   ELSE /\ calOutcome' = "returned"
                        /\ wroteCsv' = TRUE
                        /\ csvFile' = <<CsvHeader>> \o CsvRows(ids, nw, draws)
        /\ UNCHANGED <<Sets, projVars>>

SamplePosterior ==
    \E n \in 0..MaxN :
      \E draws \in Uniform(Sets.PRIOR_L, Sets.PRIOR_U, Sets.PRIOR_N) :
        \/ \E means \in [1..n -> MeanValues] :
              sample_posterior(n, draws, means, TRUE)
        \/ sample_posterior(n, draws, <<>>, FALSE)

\* 1 / np.sum(normalizedWeights ** 2)
EffectiveSampleSize(nw) ==
    FDiv(One, FSum([i \in DOMAIN nw |-> FMul(nw[i], nw[i])]))

\* Calibration.get_effective_sample_size; a list ** 2 raises TypeError
get_effective_sample_size ==
    /\ essResult' = IF normalizedIsArray
                    THEN <<[of |-> normalizedWeights,
                            value |-> EffectiveSampleSize(normalizedWeights)]>>
                    ELSE <<>>
    /\ UNCHANGED <<Sets, cohortIDs, mortalitySamples, normalizedWeights,
                   normalizedIsArray, csvFile, n_samples, multi_cohort, rawWeights,
                   wroteCsv, calOutcome, projVars>>

\* -------------------------------------------------------- CalibratedModel
\* values a weight cell of a calibration table can hold
WeightValues == {Zero, Frac(1, 2), One, NaN}

\* values a mortality probability cell can hold (grid points)
ProbValues == {1, 2}

\* calibration tables: the header, then rows (id, weight, probability) with
\* ids ascending from 0
Tables ==
    UNION {
      {<<CsvHeader>> \o [i \in 1..k |-> <<i - 1, ws[i], ps[i]>>] :
          ws \in [1..k -> WeightValues], ps \in [1..k -> ProbValues]}
      : k \in 0..MaxRows}

RatioValues == {1, 2}
CohortSizes == {5}

\* IO.read_csv_cols(file_name, n_cols, if_ignore_first_row=True, ...):
\* the columns of the rows after the first
ReadCsvCols(file, n_cols) ==
    [j \in 1..n_cols |-> [i \in 1..(Len(file) - 1) |-> file[i + 1][j]]]

\* no CalibratedModel has been built yet
ProjInit ==
    /\ modelCohortIDs = <<>>
    /\ weights = <<>>
    /\ mortalityProbs = <<>>
    /\ resampledMortalityProb = <<>>
    /\ multiCohorts = <<>>
    /\ constructed = FALSE
    /\ lastSimulate = [num |-> 0, given |-> FALSE, cohort_ids |-> <<>>,
                       sampled |-> <<>>, before |-> <<>>, outcome |-> "none"]
    /\ sumStatData = <<>>
    /\ drawnTotal = 0
    /\ loaded = <<>>

\* CalibratedModel.__init__(csv_file_name, drug_effectiveness_ratio)
CalibratedModel(file, drug_effectiveness_ratio) ==
    LET cols == ReadCsvCols(file, 3)
    IN  /\ modelCohortIDs' = cols[1]
        /\ weights' = cols[2]
        /\ mortalityProbs' =
               [i \in DOMAIN cols[3] |-> cols[3][i] * drug_effectiveness_ratio]
        /\ resampledMortalityProb' = <<>>
        /\ multiCohorts' = <<>>
        /\ constructed' = TRUE
        /\ lastSimulate' = [num |-> 0, given |-> FALSE, cohort_ids |-> <<>>,
                            sampled |-> <<>>, before |-> <<>>, outcome |-> "none"]
        /\ sumStatData' = <<>>
        /\ drawnTotal' = 0
        /\ loaded' = <<[file |-> file, ratio |-> drug_effectiveness_ratio]>>
        /\ UNCHANGED <<Sets, calVars>>

\* the construction of the one CalibratedModel instance followed here; the
\* files a caller can name are hand-made tables and CalibrationResults.csv
Construct ==
    /\ ~constructed
    /\ \E file \in Tables \cup (IF csvFile = <<>> THEN {} ELSE {csvFile}) :
      \E ratio \in RatioValues : CalibratedModel(file, ratio)

\* a sampler that also draws rows of weight zero
ChoiceAnyRow(n, size, p) == [1..size -> 0..(n - 1)]

\* a list that keeps only the latest resample
ReplaceResamples(old, appended) == appended

\* the probability vectors np.random.choice accepts: no NaN, none negative,
\* summing to 1
ValidP(p) ==
    /\ \A i \in DOMAIN p : ~IsNaN(p[i]) /\ FLeq(Zero, p[i])
    /\ FEq(FSum(p), One)

\* np.random.choice(a=range(0, n), size, replace=True, p): the index lists
\* it can return; an index is drawn only where the cumulative weight rises
Choice(n, size, p) ==
    [1..size -> {i \in 0..(n - 1) : ~FLeq(p[i + 1], Zero)}]

\* line 137, over one call: the resampled values are appended to the list
Accumulate(old, appended) == old \o appended

\* ids the caller passes as cohort_ids
CallerIds(k) == [i \in 1..k |-> 100 + i]

\* CalibratedModel.simulate(num_of_simulated_cohorts, cohort_size, time_steps,
\* cohort_ids); given = FALSE stands for cohort_ids=None
simulate(num, cohort_size, given, cohort_ids, sampled_row_indices, simOk) ==
    LET resampled_ids ==
            [k \in 1..num |-> modelCohortIDs[sampled_row_indices[k] + 1]]
        appended ==
            [k \in 1..num |-> mortalityProbs[sampled_row_indices[k] + 1]]
        probs == Accumulate(resampledMortalityProb, appended)
        mc == MultiCohort(IF given THEN cohort_ids ELSE resampled_ids,
                          probs, Repeat(cohort_size, num))
    IN  /\ (Aligned(mc) => simOk)
        /\ resampledMortalityProb' = probs
        /\ multiCohorts' = <<mc>>
        /\ drawnTotal' = drawnTotal + num
        /\ lastSimulate' = [num |-> num, given |-> given, cohort_ids |-> cohort_ids,
                            sampled |-> sampled_row_indices,
                            before |-> resampledMortalityProb,
                            outcome |-> IF simOk THEN "returned" ELSE "SimulatorError"]
        /\ UNCHANGED <<Sets, calVars, modelCohortIDs, weights, mortalityProbs,
                       constructed, sumStatData, loaded>>

\* simulate when np.random.choice raises ValueError: nothing is assigned
simulate_rejected(num, given, cohort_ids) ==
    /\ lastSimulate' = [num |-> num, given |-> given, cohort_ids |-> cohort_ids,
                        sampled |-> <<>>, before |-> resampledMortalityProb,
                        outcome |-> "ValueError"]
    /\ UNCHANGED <<Sets, calVars, modelCohortIDs, weights, mortalityProbs,
                   resampledMortalityProb, multiCohorts, constructed, sumStatData,
                   drawnTotal, loaded>>

Simulate ==
    /\ constructed
    /\ \E num \in 0..MaxCohorts, cohort_size \in CohortSizes, given \in BOOLEAN,
          k \in 0..MaxCohorts :
        LET cohort_ids == IF given THEN CallerIds(k) ELSE <<>>
        IN  /\ (~given => k = 0)
            /\ Len(resampledMortalityProb) + num <= MaxResampled
            /\ IF ValidP(weights)
               THEN \E idx \in Choice(Len(weights), num, weights) :
                      \E simOk \in BOOLEAN :
                        simulate(num, cohort_size, given, cohort_ids, idx, simOk)
               ELSE simulate_rejected(num, given, cohort_ids)

\* Stat.SummaryStat(data).get_mean()
Mean(data) == IF data = <<>> THEN NaN ELSE Frac(ISum(data), Len(data))

\* line 174: the data the summary statistic is built from
CredibleData(list, last) == list

\* CalibratedModel.get_mortality_estimate_credible_interval(alpha)
get_mortality_estimate_credible_interval ==
    /\ constructed
    /\ sumStatData' = <<[data |-> CredibleData(resampledMortalityProb, lastSimulate),
                         estimate |-> Mean(CredibleData(resampledMortalityProb, lastSimulate)),
                         drawn |-> drawnTotal]>>
    /\ UNCHANGED <<Sets, calVars, modelCohortIDs, weights, mortalityProbs,
                   resampledMortalityProb, multiCohorts, constructed, lastSimulate,
                   drawnTotal, loaded>>

\* --------------------------------------------------------- specifications
\* the calibration run
InitCal == Sets \in SettingsSpace /\ CalInit /\ ProjInit
NextCal == SamplePosterior \/ get_effective_sample_size
SpecCal == InitCal /\ [][NextCal]_vars

\* the projection run
DefaultSets == [PRIOR_L |-> 0, PRIOR_U |-> 1, PRIOR_N |-> 1,
                SIM_POP_SIZE |-> 1, OBS_STDEV |-> 1]
InitProj == Sets = DefaultSets /\ CalInit /\ ProjInit
NextProj == Construct \/ Simulate \/ get_mortality_estimate_credible_interval
SpecProj == InitProj /\ [][NextProj]_vars

Init == InitCal
Next == NextCal \/ NextProj
Spec == Init /\ [][Next]_vars

\* ------------------------------------------------------------ properties
\* the constraints of the calibration contract on the settings
ValidSettings ==
    /\ Sets.PRIOR_L < Sets.PRIOR_U
    /\ Sets.SIM_POP_SIZE >= 1
    /\ Sets.OBS_STDEV > 0

\* sample_posterior has been called with at least one sample
CalledWithSamples == n_samples # <<>> /\ n_samples[1] >= 1

\* the last sample_posterior call got as far as normalising its weights
WeightsComputed == calOutcome \in {"returned", "IndexError"}

\* the raw weights of the last call sum to zero or to no finite number
DegenerateSum ==
    \/ FEq(FSum(rawWeights), Zero)
    \/ ~IsFinite(FSum(rawWeights))

AllEqual(s) == \A i, j \in DOMAIN s : FEq(s[i], s[j])
SingleMass(s) == \E i \in DOMAIN s : FEq(s[i], One) /\ \A j \in DOMAIN s \ {i} : FEq(s[j], Zero)

\* C1: once sample_posterior(n_samples), n_samples >= 1, has completed, every
\* normalized weight is non-negative, is its raw weight over the sum of the
\* raw weights, and the normalized weights sum to 1.
C1_NormalizedWeightsSumToOne ==
    (CalledWithSamples /\ ValidSettings /\ calOutcome = "returned") =>
        /\ Len(normalizedWeights) = Len(rawWeights)
        /\ \A i \in DOMAIN normalizedWeights :
              /\ FLeq(Zero, normalizedWeights[i])
              /\ normalizedWeights[i] = FDiv(rawWeights[i], FSum(rawWeights))
        /\ FEq(FSum(normalizedWeights), One)

\* C2: when the raw weights sum to zero (or to a non-finite number),
\* sample_posterior aborts with DegenerateWeightsError, stores no normalized
\* weights and writes no table; no written table holds a NaN weight.
C2_DegenerateWeightsAbort ==
    /\ (CalledWithSamples /\ ValidSettings /\ WeightsComputed /\ DegenerateSum) =>
          /\ calOutcome = "DegenerateWeightsError"
          /\ ~wroteCsv
          /\ \A i \in DOMAIN normalizedWeights : ~IsNaN(normalizedWeights[i])
    /\ ValidSettings => \A r \in 2..Len(csvFile) : ~IsNaN(csvFile[r][2])

\* C3: after sample_posterior(n_samples) the effective sample size is
\* 1 / sum(w_i^2), lies in [1, n_samples], is n_samples exactly when all
\* weights are equal and 1 exactly when one sample holds all the mass.
C3_EffectiveSampleSizeRange ==
    (/\ CalledWithSamples /\ ValidSettings /\ WeightsComputed
     /\ essResult # <<>> /\ essResult[1].of = normalizedWeights) =>
        LET ess == essResult[1].value
            sq == [i \in DOMAIN normalizedWeights |->
                      FMul(normalizedWeights[i], normalizedWeights[i])]
        IN  /\ ess = FDiv(One, FSum(sq))
            /\ FLeq(One, ess)
            /\ FLeq(ess, FInt(n_samples[1]))
            /\ (FEq(ess, FInt(n_samples[1])) <=> AllEqual(normalizedWeights))
            /\ (FEq(ess, One) <=> SingleMass(normalizedWeights))

\* C4: sample_posterior(n_samples), n_samples >= 1, draws n_samples values,
\* gives them the ids 0..n_samples-1, simulates those n_samples candidates
\* and writes one row (id, weight, value) per candidate after the header,
\* ids ascending.
C4_OneRowPerSample ==
    (CalledWithSamples /\ ValidSettings) =>
        LET n == n_samples[1] IN
        /\ Len(mortalitySamples) = n
        /\ cohortIDs = PyRange(n)
        /\ Len(multi_cohort[1].ids) = n
        /\ Len(multi_cohort[1].mortality_probs) = n
        /\ Len(multi_cohort[1].pop_sizes) = n
        /\ Len(normalizedWeights) = n
        /\ wroteCsv
        /\ Len(csvFile) = n + 1
        /\ \A r \in 2..Len(csvFile) :
              csvFile[r] = <<r - 2, normalizedWeights[r - 1], mortalitySamples[r - 1]>>

\* the settings or the sample count break a constraint of the contract
InvalidConfiguration ==
    \/ Sets.PRIOR_L >= Sets.PRIOR_U
    \/ Sets.OBS_STDEV <= 0
    \/ Sets.SIM_POP_SIZE < 1
    \/ n_samples[1] < 1

\* C8: sample_posterior rejects an invalid configuration with a
\* ConfigurationError before the simulator is built and before any table is
\* written.
C8_ConfigurationRejected ==
    (n_samples # <<>> /\ InvalidConfiguration) =>
        /\ calOutcome = "ConfigurationError"
        /\ multi_cohort = <<>>
        /\ ~wroteCsv

\* the last simulate call drew its resample (np.random.choice returned)
Resampled == lastSimulate.outcome \in {"returned", "SimulatorError"}

\* the values the last simulate call appended, by its sampled row indices
AppendedByLast ==
    [k \in 1..Len(lastSimulate.sampled) |->
        mortalityProbs[lastSimulate.sampled[k] + 1]]

\* C5: simulate with a cohort_ids whose length differs from
\* num_of_simulated_cohorts aborts with ResampleCountMismatch before the
\* simulator is built and leaves the accumulated resampled values unchanged.
C5_ResampleCountMismatch ==
    (/\ constructed /\ ValidP(weights)
     /\ lastSimulate.given /\ Len(lastSimulate.cohort_ids) # lastSimulate.num) =>
        /\ lastSimulate.outcome = "ResampleCountMismatch"
        /\ ~Resampled
        /\ resampledMortalityProb = lastSimulate.before

\* C6: the resampled list is empty after construction and every simulate
\* call that resamples appends exactly num_of_simulated_cohorts values to
\* it, keeping the earlier ones in place (a call np.random.choice rejects
\* appends nothing), so its length is the sum of the resampled counts; the
\* credible interval is computed over the whole accumulated list.
C6_ResamplesAccumulate ==
    /\ (constructed /\ lastSimulate.outcome = "none") => resampledMortalityProb = <<>>
    /\ Len(resampledMortalityProb) = drawnTotal
    /\ Resampled =>
          /\ Len(resampledMortalityProb) = Len(lastSimulate.before) + lastSimulate.num
          /\ SubSeq(resampledMortalityProb, 1, Len(lastSimulate.before)) = lastSimulate.before
          /\ SubSeq(resampledMortalityProb, Len(lastSimulate.before) + 1,
                    Len(resampledMortalityProb)) = AppendedByLast
    /\ lastSimulate.outcome = "ValueError" => resampledMortalityProb = lastSimulate.before
    /\ sumStatData # <<>> =>
          /\ Len(sumStatData[1].data) = sumStatData[1].drawn
          /\ sumStatData[1].data =
                SubSeq(resampledMortalityProb, 1, Len(sumStatData[1].data))

\* two simulate calls have accumulated and the interval was queried over both
C6_Witness ==
    /\ Resampled
    /\ lastSimulate.num >= 1
    /\ Len(lastSimulate.before) >= 1
    /\ sumStatData # <<>>
    /\ sumStatData[1].data = resampledMortalityProb

\* C7: a CalibratedModel is only ever built from a table whose weights sum
\* to 1; any other table is refused with a ParseError.
C7_LoaderChecksWeightSum ==
    constructed => FEq(FSum(weights), One)

\* weights is [1, 0, 0, ...]
DegenerateOnFirst ==
    /\ Len(weights) >= 1
    /\ FEq(weights[1], One)
    /\ \A i \in 2..Len(weights) : FEq(weights[i], Zero)

\* C9: a simulate call resamples exactly num_of_simulated_cohorts row
\* indices, each in [0, len(weights)) and none of weight 0; with weights
\* [1, 0, 0, ...] every index is 0 and every value appended is the
\* ratio-scaled probability of row 0.
C9_ResampleSupport ==
    Resampled =>
        /\ Len(lastSimulate.sampled) = lastSimulate.num
        /\ \A k \in DOMAIN lastSimulate.sampled :
              /\ lastSimulate.sampled[k] \in 0..(Len(weights) - 1)
              /\ ~FEq(weights[lastSimulate.sampled[k] + 1], Zero)
        /\ DegenerateOnFirst =>
              /\ \A k \in DOMAIN lastSimulate.sampled : lastSimulate.sampled[k] = 0
              /\ \A k \in (Len(lastSimulate.before) + 1)..Len(resampledMortalityProb) :
                    resampledMortalityProb[k] = loaded[1].file[2][3] * loaded[1].ratio

\* weights [1, 0] and a call that resampled two cohorts
C9_Witness ==
    /\ Resampled
    /\ Len(weights) = 2
    /\ DegenerateOnFirst
    /\ lastSimulate.num = 2
    /\ lastSimulate.sampled = <<0, 0>>
    /\ loaded[1].ratio = 2

\* C10: on every simulate call the simulator is built from three lists of
\* length num_of_simulated_cohorts: the ids (cohort_ids if supplied, else
\* the ids resampled in this call), the population sizes and the values
\* resampled in this call, the i-th value being that of the i-th index.
C10_SimulatorListsAligned ==
    (/\ Resampled
     /\ (lastSimulate.given => Len(lastSimulate.cohort_ids) = lastSimulate.num)) =>
        LET mc == multiCohorts[1] IN
        /\ Len(mc.ids) = lastSimulate.num
        /\ Len(mc.pop_sizes) = lastSimulate.num
        /\ mc.mortality_probs = AppendedByLast
        /\ mc.ids = IF lastSimulate.given THEN lastSimulate.cohort_ids
                    ELSE [k \in 1..lastSimulate.num |->
                             modelCohortIDs[lastSimulate.sampled[k] + 1]]

====
